---------------------------- MODULE Spec2Model ----------------------------
(***************************************************************************)
(* Post service of the blogging backend: the Post table (models.py), the   *)
(* Pydantic validation schemas (schemas.py), the service operations        *)
(* (services/post_service.py) and the GraphQL resolvers and mutations      *)
(* that call them (main.py).                                               *)
(*                                                                         *)
(* Strings are run-length encoded: a string is a sequence of runs          *)
(* [c |-> character, n |-> repetitions] with n >= 1 and adjacent runs of   *)
(* different characters, so that a 10000-character content is a single     *)
(* run.  The encoding is one-to-one, hence equality of encodings is        *)
(* equality of strings.                                                    *)
(***************************************************************************)
EXTENDS Integers, Sequences, FiniteSets, TLC

VARIABLES
    posts,      \* the committed rows of table "post"
    seq,        \* last value handed out by the id sequence of the table
    clock,      \* the store's now() at the last insert; time passes between inserts
    last,       \* the request being answered and its response, or Idle
    session,    \* the shared Session: "active", or "inactive" after a failed commit
    raised,     \* the exception raised while the request in progress was served, or NoExc
    issued,     \* the id and time_created given to each row inserted so far,
                \* in order of insert
    reqs,       \* the requests being served statement by statement, by slot
    pend        \* by worker process: what its Session holds unflushed, in order

vars == <<posts, seq, clock, last, session, raised, issued, reqs, pend>>

---------------------------------------------------------------------------
(* Bounds of the model *)

MaxId == 2          \* creates per behaviour (ids 1..MaxId)
MaxPageId == 5      \* creates per behaviour of the pagination specification
MaxPage == 3        \* largest page requested

(* Program constants *)

MinLen == 1
MaxTitleLen == 200
MaxContentLen == 10000
MaxAuthorLen == 100
MaxLimit == 100

---------------------------------------------------------------------------
(* Strings *)

Run(ch, k) == [c |-> ch, n |-> k]

\* Python's None and an absent key of the input dict, encoded in the type of
\* strings by a run of length 0, which no string has.
None == << Run("None", 0) >>
Unset == << Run("Unset", 0) >>

IsStr(v) == v # None /\ v # Unset

\* the characters str.strip() removes (a space and a tab stand for them)
Whitespace == {" ", "\t"}

RECURSIVE len(_)
len(s) == IF s = << >> THEN 0 ELSE Head(s).n + len(Tail(s))

RECURSIVE lstrip(_)
lstrip(s) ==
    IF s = << >> THEN << >>
    ELSE IF Head(s).c \in Whitespace THEN lstrip(Tail(s))
    ELSE s

RECURSIVE rstrip(_)
rstrip(s) ==
    IF s = << >> THEN << >>
    ELSE IF s[Len(s)].c \in Whitespace THEN rstrip(SubSeq(s, 1, Len(s) - 1))
    ELSE s

strip(s) == rstrip(lstrip(s))

\* SQL trim(): removes spaces only
RECURSIVE sql_ltrim(_)
sql_ltrim(s) ==
    IF s = << >> THEN << >>
    ELSE IF Head(s).c = " " THEN sql_ltrim(Tail(s))
    ELSE s

RECURSIVE sql_rtrim(_)
sql_rtrim(s) ==
    IF s = << >> THEN << >>
    ELSE IF s[Len(s)].c = " " THEN sql_rtrim(SubSeq(s, 1, Len(s) - 1))
    ELSE s

sql_trim(s) == sql_rtrim(sql_ltrim(s))

---------------------------------------------------------------------------
(* schemas.py: the Pydantic models.  A field's Field(...) constraints are  *)
(* checked on the value as supplied; its field_validator runs after them,  *)
(* and only when they passed.                                              *)

PydanticError(loc, type, msg) == [loc |-> loc, type |-> type, msg |-> msg]

\* mutant: the length is checked on the trimmed value
StrConstraintErrors_AfterStrip(loc, v, max_length) ==
    IF len(strip(v)) < MinLen
    THEN << PydanticError(loc, "string_too_short",
                          "String should have at least 1 character") >>
    ELSE IF len(strip(v)) > max_length
    THEN << PydanticError(loc, "string_too_long",
                          "String should have at most max_length characters") >>
    ELSE << >>

\* Field(..., min_length=1, max_length=max_length) of a str
StrConstraintErrors(loc, v, max_length) ==
    IF len(v) < MinLen
    THEN << PydanticError(loc, "string_too_short",
                          "String should have at least 1 character") >>
    ELSE IF len(v) > max_length
    THEN << PydanticError(loc, "string_too_long",
                          "String should have at most max_length characters") >>
    ELSE << >>

\* mutant: the validators never raise
ValidatorErrors_Off(loc, v) == << >>

\* the field_validator of a field: raises on a blank value
ValidatorErrors(loc, v) ==
    IF strip(v) = << >>
    THEN << PydanticError(loc, "value_error",
                          "Value error, cannot be empty or whitespace only") >>
    ELSE << >>

\* a required str field of PostCreateSchema
CreateFieldErrors(loc, v, max_length) ==
    IF v = Unset THEN << PydanticError(loc, "missing", "Field required") >>
    ELSE IF v = None
    THEN << PydanticError(loc, "string_type", "Input should be a valid string") >>
    ELSE IF StrConstraintErrors(loc, v, max_length) # << >>
    THEN StrConstraintErrors(loc, v, max_length)
    ELSE ValidatorErrors(loc, v)

\* an Optional[str] field of PostUpdateSchema (default None, not validated)
UpdateFieldErrors(loc, v, max_length) ==
    IF v = Unset \/ v = None THEN << >>
    ELSE IF StrConstraintErrors(loc, v, max_length) # << >>
    THEN StrConstraintErrors(loc, v, max_length)
    ELSE ValidatorErrors(loc, v)

\* mutant: the validator returns the value as supplied
CreateFieldValue_NoStrip(v) == v

\* what a validator returns for a value that passed
CreateFieldValue(v) == strip(v)

\* mutant: the update schema's validator returns the value as supplied
UpdateFieldValue_NoStrip(v) == v

UpdateFieldValue(v) == IF v = Unset \/ v = None \/ v = << >> THEN v ELSE strip(v)

\* PostCreateSchema(**input): the errors (in field order) and the validated model
PostCreateSchema(input) ==
    [errors |-> CreateFieldErrors("title", input.title, MaxTitleLen)
                \o CreateFieldErrors("content", input.content, MaxContentLen)
                \o CreateFieldErrors("author", input.author, MaxAuthorLen),
     title |-> CreateFieldValue(input.title),
     content |-> CreateFieldValue(input.content),
     author |-> CreateFieldValue(input.author)]

\* PostUpdateSchema(**update_data); a field left out stays Unset, which is what
\* model_dump(exclude_unset=True) drops
\* mutant: validation stops at the first field in error
PostUpdateSchema_FirstError(update_data) ==
    LET all == UpdateFieldErrors("title", update_data.title, MaxTitleLen)
               \o UpdateFieldErrors("content", update_data.content, MaxContentLen)
               \o UpdateFieldErrors("author", update_data.author, MaxAuthorLen)
    IN  [errors |-> IF all = << >> THEN << >> ELSE << all[1] >>,
         title |-> UpdateFieldValue(update_data.title),
         content |-> UpdateFieldValue(update_data.content),
         author |-> UpdateFieldValue(update_data.author)]

PostUpdateSchema(update_data) ==
    [errors |-> UpdateFieldErrors("title", update_data.title, MaxTitleLen)
                \o UpdateFieldErrors("content", update_data.content, MaxContentLen)
                \o UpdateFieldErrors("author", update_data.author, MaxAuthorLen),
     title |-> UpdateFieldValue(update_data.title),
     content |-> UpdateFieldValue(update_data.content),
     author |-> UpdateFieldValue(update_data.author)]

---------------------------------------------------------------------------
(* models.py: table "post" and its constraints *)

Post(id, title, content, author, time_created) ==
    [id |-> id, title |-> title, content |-> content, author |-> author,
     time_created |-> time_created]

\* the result of a lookup that finds no row (ids start at 1)
NoPost == Post(0, None, None, None, 0)

\* nullable=False, String(n), CheckConstraint("length(trim(col)) > 0")
\* mutant: the column is nullable; a CHECK constraint passes on NULL
ColumnAccepts_Nullable(v, n) == v = None \/ (len(v) <= n /\ len(sql_trim(v)) > 0)

ColumnAccepts(v, n) == v # None /\ len(v) <= n /\ len(sql_trim(v)) > 0

StoreAccepts(row) ==
    /\ ColumnAccepts(row.title, MaxTitleLen)
    /\ ColumnAccepts(row.content, MaxContentLen)
    /\ ColumnAccepts(row.author, MaxAuthorLen)

---------------------------------------------------------------------------
(* services/post_service.py: PostService.  Each operation is a function of *)
(* the committed rows db (and, for create, of the id sequence sq and the   *)
(* store's now()); it yields the exception raised (or NoExc), the value    *)
(* returned, and the rows and sequence after it.                           *)

Exc(type, text, arg, errors) ==
    [type |-> type, text |-> text, arg |-> arg, errors |-> errors]

NoExc == Exc("none", "", 0, << >>)

\* ValueError(f"Post with id {post_id} not found")
NotFoundError(post_id) == Exc("ValueError", "Post with id {post_id} not found", post_id, << >>)

\* pydantic.ValidationError carrying the per-field errors
ValidationError(errors) == Exc("ValidationError", "", 0, errors)

\* sqlalchemy.exc.IntegrityError raised by commit() when the store rejects a row
IntegrityError == Exc("IntegrityError", "constraint violated", 0, << >>)

Outcome(exc, ret, db, sq) == [exc |-> exc, ret |-> ret, db |-> db, seq |-> sq]

\* mutant: the query is not filtered by id
get_post_by_id_First(db, post_id) ==
    IF db # {} THEN CHOOSE r \in db : TRUE ELSE NoPost

\* self.db.query(models.Post).filter(models.Post.id == post_id).first()
get_post_by_id(db, post_id) ==
    IF \E r \in db : r.id = post_id
    THEN CHOOSE r \in db : r.id = post_id
    ELSE NoPost

\* add, commit, refresh.  The store assigns id (next value of the sequence,
\* used up also when the insert fails) and time_created.
\* mutant: the row is added to the session and returned, commit() is not called
create_post_NoCommit(db, sq, now, post_data) ==
    Outcome(NoExc,
            Post(sq + 1, post_data.title, post_data.content, post_data.author, now),
            db, sq + 1)

\* mutant: the id is one more than the largest id in the table (a rowid without
\* a sequence)
create_post_MaxPlusOne(db, sq, now, post_data) ==
    LET max_id == IF db = {} THEN 0
                  ELSE CHOOSE i \in {r.id : r \in db} : \A r \in db : r.id <= i
        db_post == Post(max_id + 1, post_data.title, post_data.content,
                        post_data.author, now)
    IN  IF StoreAccepts(db_post)
        THEN Outcome(NoExc, db_post, db \cup {db_post}, sq + 1)
        ELSE Outcome(IntegrityError, NoPost, db, sq + 1)

create_post(db, sq, now, post_data) ==
    LET db_post == Post(sq + 1, post_data.title, post_data.content,
                        post_data.author, now)
    IN  IF StoreAccepts(db_post)
        THEN Outcome(NoExc, db_post, db \cup {db_post}, sq + 1)
        ELSE Outcome(IntegrityError, NoPost, db, sq + 1)

\* mutant: the author is never written
ApplyUpdates_SkipsAuthor(db_post, update_fields) ==
    [db_post EXCEPT
        !.title = IF update_fields.title = Unset THEN @ ELSE update_fields.title,
        !.content = IF update_fields.content = Unset THEN @ ELSE update_fields.content]

\* mutant: model_dump() without exclude_unset, which writes None to the fields
\* left out
ApplyUpdates_NoExcludeUnset(db_post, update_fields) ==
    [db_post EXCEPT
        !.title = IF update_fields.title = Unset THEN None ELSE update_fields.title,
        !.content = IF update_fields.content = Unset THEN None ELSE update_fields.content,
        !.author = IF update_fields.author = Unset THEN None ELSE update_fields.author]

\* for key, value in update_fields.items(): setattr(db_post, key, value)
ApplyUpdates(db_post, update_fields) ==
    [db_post EXCEPT
        !.title = IF update_fields.title = Unset THEN @ ELSE update_fields.title,
        !.content = IF update_fields.content = Unset THEN @ ELSE update_fields.content,
        !.author = IF update_fields.author = Unset THEN @ ELSE update_fields.author]

\* mutant: the fields that pass validation are written and committed before
\* the validation failure is raised
update_post_NonAtomic(db, sq, post_id, update_data) ==
    LET db_post == get_post_by_id(db, post_id)
        validated_data == PostUpdateSchema(update_data)
        passed == [title |-> IF UpdateFieldErrors("title", update_data.title, MaxTitleLen) = << >>
                             THEN validated_data.title ELSE Unset,
                   content |-> IF UpdateFieldErrors("content", update_data.content, MaxContentLen) = << >>
                               THEN validated_data.content ELSE Unset,
                   author |-> IF UpdateFieldErrors("author", update_data.author, MaxAuthorLen) = << >>
                              THEN validated_data.author ELSE Unset]
        updated == ApplyUpdates(db_post, passed)
    IN  IF db_post = NoPost
        THEN Outcome(NotFoundError(post_id), NoPost, db, sq)
        ELSE IF ~StoreAccepts(updated)
        THEN Outcome(IntegrityError, NoPost, db, sq)
        ELSE IF validated_data.errors # << >>
        THEN Outcome(ValidationError(validated_data.errors), NoPost,
                     (db \ {db_post}) \cup {updated}, sq)
        ELSE Outcome(NoExc, updated, (db \ {db_post}) \cup {updated}, sq)

\* mutant: the fields are validated before the row is looked up
update_post_ValidateFirst(db, sq, post_id, update_data) ==
    LET db_post == get_post_by_id(db, post_id)
        validated_data == PostUpdateSchema(update_data)
        updated == ApplyUpdates(db_post, validated_data)
    IN  IF validated_data.errors # << >>
        THEN Outcome(ValidationError(validated_data.errors), NoPost, db, sq)
        ELSE IF db_post = NoPost
        THEN Outcome(NotFoundError(post_id), NoPost, db, sq)
        ELSE IF StoreAccepts(updated)
        THEN Outcome(NoExc, updated, (db \ {db_post}) \cup {updated}, sq)
        ELSE Outcome(IntegrityError, NoPost, db, sq)

\* mutant: every key of update_data is set on the row, declared by the schema
\* or not
update_post_RawKeys(db, sq, post_id, update_data) ==
    LET db_post == get_post_by_id(db, post_id)
        validated_data == PostUpdateSchema(update_data)
        extra == IF "extra" \in DOMAIN update_data THEN update_data.extra ELSE {}
        raw(key, old) == IF \E kv \in extra : kv[1] = key
                         THEN (CHOOSE kv \in extra : kv[1] = key)[2]
                         ELSE old
        updated == [ApplyUpdates(db_post, validated_data) EXCEPT
                        !.id = raw("id", @),
                        !.time_created = raw("time_created", @)]
    IN  IF db_post = NoPost
        THEN Outcome(NotFoundError(post_id), NoPost, db, sq)
        ELSE IF validated_data.errors # << >>
        THEN Outcome(ValidationError(validated_data.errors), NoPost, db, sq)
        ELSE IF StoreAccepts(updated)
        THEN Outcome(NoExc, updated, (db \ {db_post}) \cup {updated}, sq)
        ELSE Outcome(IntegrityError, NoPost, db, sq)

update_post(db, sq, post_id, update_data) ==
    LET db_post == get_post_by_id(db, post_id)
        validated_data == PostUpdateSchema(update_data)
        updated == ApplyUpdates(db_post, validated_data)
    IN  IF db_post = NoPost
        THEN Outcome(NotFoundError(post_id), NoPost, db, sq)
        ELSE IF validated_data.errors # << >>
        THEN Outcome(ValidationError(validated_data.errors), NoPost, db, sq)
        ELSE IF StoreAccepts(updated)
        THEN Outcome(NoExc, updated, (db \ {db_post}) \cup {updated}, sq)
        ELSE Outcome(IntegrityError, NoPost, db, sq)

\* mutant: deleting an absent id succeeds silently
delete_post_Idempotent(db, sq, post_id) ==
    Outcome(NoExc, NoPost, {r \in db : r.id # post_id}, sq)

\* mutant: the delete is not filtered by id
delete_post_Truncate(db, sq, post_id) ==
    IF get_post_by_id(db, post_id) = NoPost
    THEN Outcome(NotFoundError(post_id), NoPost, db, sq)
    ELSE Outcome(NoExc, NoPost, {}, sq)

delete_post(db, sq, post_id) ==
    LET db_post == get_post_by_id(db, post_id)
    IN  IF db_post = NoPost
        THEN Outcome(NotFoundError(post_id), NoPost, db, sq)
        ELSE Outcome(NoExc, NoPost, db \ {db_post}, sq)

\* the orders in which a query without ORDER BY may return the rows
\* mutant: the query returns its first row only
Orders_First(db) == IF db = {} THEN { << >> } ELSE { << r >> : r \in db }

RECURSIVE Orders(_)
Orders(db) ==
    IF db = {} THEN { << >> }
    ELSE UNION { { << r >> \o o : o \in Orders(db \ {r}) } : r \in db }

\* mutant: the rows are ordered by id ascending
RECURSIVE OrderByIdDesc_Asc(_)
OrderByIdDesc_Asc(db) ==
    IF db = {} THEN << >>
    ELSE LET r == CHOOSE x \in db : \A y \in db : y.id >= x.id
         IN  << r >> \o OrderByIdDesc_Asc(db \ {r})

\* .order_by(desc(models.Post.id))
RECURSIVE OrderByIdDesc(_)
OrderByIdDesc(db) ==
    IF db = {} THEN << >>
    ELSE LET r == CHOOSE x \in db : \A y \in db : y.id <= x.id
         IN  << r >> \o OrderByIdDesc(db \ {r})

\* .offset(offset).limit(limit) of a sequence of rows
OffsetLimit(rows, offset, limit) ==
    SubSeq(rows, offset + 1,
           IF offset + limit < Len(rows) THEN offset + limit ELSE Len(rows))

\* mutant: integer division instead of the ceiling
Ceil_Floor(total_count, limit) == total_count \div limit

\* math.ceil(total_count / limit), exact for the counts a 32-bit id allows
Ceil(total_count, limit) ==
    IF total_count % limit = 0
    THEN total_count \div limit
    ELSE total_count \div limit + 1

Page(items, total_count, total_pages, page, has_next_page, has_previous_page) ==
    [items |-> items, total_count |-> total_count, total_pages |-> total_pages,
     current_page |-> page, has_next_page |-> has_next_page,
     has_previous_page |-> has_previous_page]

NoPage == Page(<< >>, 0, 0, 0, FALSE, FALSE)

\* mutant: the upper bound of limit is not checked
PaginationArgError_NoUpper(page, limit) ==
    IF page < 1 THEN Exc("ValueError", "page must be >= 1", 0, << >>)
    ELSE IF limit < 1 THEN Exc("ValueError", "limit must be >= 1", 0, << >>)
    ELSE NoExc

\* the ValueError raised for bad arguments, or NoExc
PaginationArgError(page, limit) ==
    IF page < 1 THEN Exc("ValueError", "page must be >= 1", 0, << >>)
    ELSE IF limit < 1 THEN Exc("ValueError", "limit must be >= 1", 0, << >>)
    ELSE IF limit > MaxLimit THEN Exc("ValueError", "limit cannot exceed 100", 0, << >>)
    ELSE NoExc

\* mutant: no special case for the empty store
TotalPages_NoEmptyCase(total_count, limit) == Ceil(total_count, limit)

TotalPages(total_count, limit) ==
    IF total_count > 0 THEN Ceil(total_count, limit) ELSE 1

\* mutant: has_next_page also on the last page
get_posts_paginated_NextInclusive(db, page, limit) ==
    LET total_count == Cardinality(db)
        total_pages == TotalPages(total_count, limit)
        offset == (page - 1) * limit
    IN  IF PaginationArgError(page, limit) # NoExc
        THEN [exc |-> PaginationArgError(page, limit), ret |-> NoPage]
        ELSE [exc |-> NoExc,
              ret |-> Page(OffsetLimit(OrderByIdDesc(db), offset, limit),
                           total_count, total_pages, page,
                           page <= total_pages, page > 1)]

\* mutant: a page beyond the last is clamped to the last
get_posts_paginated_Clamped(db, page, limit) ==
    LET total_count == Cardinality(db)
        total_pages == TotalPages(total_count, limit)
        current == IF page > total_pages THEN total_pages ELSE page
        offset == (current - 1) * limit
    IN  IF PaginationArgError(page, limit) # NoExc
        THEN [exc |-> PaginationArgError(page, limit), ret |-> NoPage]
        ELSE [exc |-> NoExc,
              ret |-> Page(OffsetLimit(OrderByIdDesc(db), offset, limit),
                           total_count, total_pages, current,
                           current < total_pages, current > 1)]

get_posts_paginated(db, page, limit) ==
    LET total_count == Cardinality(db)
        total_pages == TotalPages(total_count, limit)
        offset == (page - 1) * limit
    IN  IF PaginationArgError(page, limit) # NoExc
        THEN [exc |-> PaginationArgError(page, limit), ret |-> NoPage]
        ELSE [exc |-> NoExc,
              ret |-> Page(OffsetLimit(OrderByIdDesc(db), offset, limit),
                           total_count, total_pages, page,
                           page < total_pages, page > 1)]

---------------------------------------------------------------------------
(* main.py: the GraphQL mutations and queries.  last records the request   *)
(* and the response: ok / error / post of a mutation, the value or the     *)
(* error of a query, and the rows the store held when the request came.    *)

Input(title, content, author) == [title |-> title, content |-> content, author |-> author]

NoInput == Input(Unset, Unset, Unset)

Response(op, id, input, page, limit, ok, error, post, items, pagination, before) ==
    [op |-> op, id |-> id, input |-> input, page |-> page, limit |-> limit,
     ok |-> ok, error |-> error, post |-> post, items |-> items,
     pagination |-> pagination, before |-> before]

\* format_validation_errors(e): "loc: msg" of every error, in order
format_validation_errors(e) ==
    Exc("ValidationError", "{loc}: {msg}, ...", 0,
        [i \in 1..Len(e.errors) |-> [loc |-> e.errors[i].loc, msg |-> e.errors[i].msg]])

\* f"Failed to ... post: {str(e)}"
FailedTo(what, e) == Exc("Exception", what, 0, << >>)

\* mutant: a ValueError of the service is answered without an error
MutationError_Silent(what, e) ==
    IF e.type = "ValidationError" THEN format_validation_errors(e)
    ELSE IF e.type = "ValueError" THEN NoExc
    ELSE FailedTo(what, e)

\* the error field of a mutation's response for the exception e
MutationError(what, e) ==
    IF e.type = "ValidationError" THEN format_validation_errors(e)
    ELSE IF e.type = "ValueError" THEN e
    ELSE FailedTo(what, e)

\* sqlalchemy.exc.OperationalError: the store fails while commit() flushes the
\* pending statements
OperationalError == Exc("OperationalError", "store failure", 0, << >>)

\* sqlalchemy.exc.PendingRollbackError: the Session is used after a failed
\* commit that was not rolled back
PendingRollbackError == Exc("PendingRollbackError", "rolled back due to a previous exception", 0, << >>)

\* what an operation of the service yields on the session in state s: a Session
\* whose commit failed raises on every use until rollback() is called
Guarded(s, out, db, sq) ==
    IF s = "inactive" THEN Outcome(PendingRollbackError, NoPost, db, sq) ELSE out

\* the state of the Session after the service raised e (NoExc: returned)
SessionAfterRaise(s, e) ==
    IF e.type \in {"IntegrityError", "OperationalError"} THEN "inactive" ELSE s

\* mutant: the handler does not roll back
rollback_Forgotten(s) == s

\* get_db_session().rollback()
rollback(s) == "active"

\* the state of the Session when a mutation's handler returns: the clause
\* "except Exception" rolls back, the clauses for ValidationError and
\* ValueError do not
HandlerSession(s, e) ==
    IF e.type \in {"none", "ValidationError", "ValueError"}
    THEN SessionAfterRaise(s, e)
    ELSE rollback(SessionAfterRaise(s, e))

\* the requests served at a time, and the worker processes that serve them:
\* each process has its own default_db
Reqs == {1, 2}
Workers == {1, 2}

\* a request in a slot: where it stands (pc), what was asked, the worker that
\* serves it, what became of the change it left in the Session (change, by),
\* whether it ran while the request of the other slot had a change pending
\* (overlap), the row it loaded, the count it read, the statements it sent
\* (reads), and its response
Req(pc, op, id, input, page, limit, worker, change, by, overlap, loaded, count, reads, ok, error, post, items) ==
    [pc |-> pc, op |-> op, id |-> id, input |-> input, page |-> page,
     limit |-> limit, worker |-> worker, change |-> change, by |-> by,
     overlap |-> overlap, loaded |-> loaded, count |-> count, reads |-> reads,
     ok |-> ok, error |-> error, post |-> post, items |-> items]

Free == Req("free", "", 0, NoInput, 0, 0, 0, "none", 0, FALSE, NoPost, 0, 0,
            TRUE, NoExc, NoPost, << >>)

\* an unflushed change of a Session: db.add(row), setattr on a loaded row,
\* db.delete(row)
Change(req, kind, id, fields) == [req |-> req, kind |-> kind, id |-> id, fields |-> fields]

\* sqlalchemy.orm.exc.StaleDataError: the UPDATE of a row matched no row
StaleDataError == Exc("StaleDataError", "UPDATE statement expected to update 1 row(s); 0 were matched", 0, << >>)

\* sqlalchemy.exc.InvalidRequestError: refresh() of a row the Session does not hold
InvalidRequestError == Exc("InvalidRequestError", "Could not refresh instance", 0, << >>)

\* no request in progress
Idle == Response("idle", 0, NoInput, 0, 0, TRUE, NoExc, NoPost, << >>, NoPage, {})

Init ==
    /\ posts = {}
    /\ seq = 0
    /\ clock = 0
    /\ last = Idle
    /\ session = "active"
    /\ raised = NoExc
    /\ issued = << >>
    /\ reqs = [r \in Reqs |-> Free]
    /\ pend = [w \in Workers |-> << >>]

\* CreateNewPost.mutate: PostCreateSchema(**input), then service.create_post;
\* a failed commit is rolled back
CreateNewPost(inputs, max_id) ==
    \E input \in inputs :
        LET post_data == PostCreateSchema(input)
            now == clock + 1
            out == Guarded(session, create_post(posts, seq, now, post_data), posts, seq)
        IN  /\ last = Idle
            /\ UNCHANGED <<reqs, pend>>
            /\ seq < max_id
            /\ IF post_data.errors # << >>
               THEN /\ last' = Response("createNewPost", 0, input, 0, 0, FALSE,
                                        format_validation_errors(post_data),
                                        NoPost, << >>, NoPage, posts)
                    /\ raised' = ValidationError(post_data.errors)
                    /\ UNCHANGED <<posts, seq, clock, session, issued>>
               ELSE /\ posts' = out.db
                    /\ seq' = out.seq
                    /\ clock' = now
                    /\ issued' = IF out.exc = NoExc
                                 THEN Append(issued,
                                             [id |-> out.ret.id,
                                              time_created |-> out.ret.time_created])
                                 ELSE issued
                    /\ raised' = out.exc
                    /\ session' = HandlerSession(session, out.exc)
                    /\ last' = Response("createNewPost", 0, input, 0, 0,
                                        out.exc = NoExc,
                                        IF out.exc = NoExc THEN NoExc
                                        ELSE MutationError("Failed to create post", out.exc),
                                        out.ret, << >>, NoPage, posts)

\* UpdatePost.mutate
UpdatePost(ids, inputs) ==
    \E id \in ids, input \in inputs :
        LET out == Guarded(session, update_post(posts, seq, id, input), posts, seq)
        IN  /\ last = Idle
            /\ UNCHANGED <<reqs, pend>>
            /\ posts' = out.db
            /\ raised' = out.exc
            /\ session' = HandlerSession(session, out.exc)
            /\ last' = Response("updatePost", id, input, 0, 0,
                                out.exc = NoExc,
                                IF out.exc = NoExc THEN NoExc
                                ELSE MutationError("Failed to update post", out.exc),
                                out.ret, << >>, NoPage, posts)
            /\ UNCHANGED <<seq, clock, issued>>

\* DeletePost.mutate
DeletePost(ids) ==
    \E id \in ids :
        LET out == Guarded(session, delete_post(posts, seq, id), posts, seq)
        IN  /\ last = Idle
            /\ UNCHANGED <<reqs, pend>>
            /\ posts' = out.db
            /\ raised' = out.exc
            /\ session' = HandlerSession(session, out.exc)
            /\ last' = Response("deletePost", id, NoInput, 0, 0,
                                out.exc = NoExc,
                                IF out.exc = NoExc THEN NoExc
                                ELSE MutationError("Failed to delete post", out.exc),
                                NoPost, << >>, NoPage, posts)
            /\ UNCHANGED <<seq, clock, issued>>

\* the commit of a create fails in the store (the connection drops, the store
\* refuses): commit() raises, "except Exception" rolls back.  The INSERT may
\* or may not have drawn an id from the sequence before.
CreateNewPostFault(inputs, max_id) ==
    \E input \in inputs, drawn \in BOOLEAN :
        /\ last = Idle
        /\ UNCHANGED <<reqs, pend>>
        /\ seq < max_id
        /\ session = "active"
        /\ PostCreateSchema(input).errors = << >>
        /\ raised' = OperationalError
        /\ session' = HandlerSession(session, OperationalError)
        /\ seq' = IF drawn THEN seq + 1 ELSE seq
        /\ last' = Response("createNewPost", 0, input, 0, 0, FALSE,
                            MutationError("Failed to create post", OperationalError),
                            NoPost, << >>, NoPage, posts)
        /\ UNCHANGED <<posts, clock, issued>>

\* the commit of an update that passed validation fails in the store
UpdatePostFault(ids, inputs) ==
    \E id \in ids, input \in inputs :
        /\ last = Idle
        /\ UNCHANGED <<reqs, pend>>
        /\ session = "active"
        /\ update_post(posts, seq, id, input).exc.type \in {"none", "IntegrityError"}
        /\ raised' = OperationalError
        /\ session' = HandlerSession(session, OperationalError)
        /\ last' = Response("updatePost", id, input, 0, 0, FALSE,
                            MutationError("Failed to update post", OperationalError),
                            NoPost, << >>, NoPage, posts)
        /\ UNCHANGED <<posts, seq, clock, issued>>

\* the commit of a delete fails in the store
DeletePostFault(ids) ==
    \E id \in ids :
        /\ last = Idle
        /\ UNCHANGED <<reqs, pend>>
        /\ session = "active"
        /\ delete_post(posts, seq, id).exc = NoExc
        /\ raised' = OperationalError
        /\ session' = HandlerSession(session, OperationalError)
        /\ last' = Response("deletePost", id, NoInput, 0, 0, FALSE,
                            MutationError("Failed to delete post", OperationalError),
                            NoPost, << >>, NoPage, posts)
        /\ UNCHANGED <<posts, seq, clock, issued>>

\* Query.resolve_post_by_id
PostById(ids) ==
    \E id \in ids :
        /\ last = Idle
        /\ UNCHANGED <<reqs, pend>>
        /\ raised' = Guarded(session, Outcome(NoExc, NoPost, posts, seq), posts, seq).exc
        /\ last' = Response("postById", id, NoInput, 0, 0, raised' = NoExc, raised',
                            IF raised' = NoExc THEN get_post_by_id(posts, id) ELSE NoPost,
                            << >>, NoPage, posts)
        /\ UNCHANGED <<posts, seq, clock, session, issued>>

\* Query.resolve_all_posts: service.get_all_posts(), in the order the store chooses
AllPosts ==
    \E rows \in Orders(posts) :
        /\ last = Idle
        /\ UNCHANGED <<reqs, pend>>
        /\ raised' = Guarded(session, Outcome(NoExc, NoPost, posts, seq), posts, seq).exc
        /\ last' = Response("allPosts", 0, NoInput, 0, 0, raised' = NoExc, raised',
                            NoPost, IF raised' = NoExc THEN rows ELSE << >>,
                            NoPage, posts)
        /\ UNCHANGED <<posts, seq, clock, session, issued>>

\* Query.resolve_posts: a ValueError of the service becomes a GraphQLError
Posts(pages, limits) ==
    \E page \in pages, limit \in limits :
        LET got == get_posts_paginated(posts, page, limit)
            out == IF got.exc = NoExc /\ session = "inactive"
                   THEN [exc |-> PendingRollbackError, ret |-> NoPage]
                   ELSE got
        IN  /\ last = Idle
            /\ UNCHANGED <<reqs, pend>>
            /\ raised' = out.exc
            /\ last' = Response("posts", 0, NoInput, page, limit,
                                out.exc = NoExc, out.exc,
                                NoPost, out.ret.items, out.ret, posts)
            /\ UNCHANGED <<posts, seq, clock, session, issued>>

\* the response leaves; the next request can be taken
ReturnResponse ==
    /\ last # Idle
    /\ UNCHANGED <<reqs, pend>>
    /\ last' = Idle
    /\ raised' = NoExc
    /\ UNCHANGED <<posts, seq, clock, session, issued>>

---------------------------------------------------------------------------
(* Requests served statement by statement.  A mutation stages its change in the
   Session of its worker (add, setattr, delete) and commit() flushes what the
   Session holds; posts query the count, then the page.  Between two statements
   of one request the requests of other workers run. *)

\* mutant: a worker runs the handlers of several requests at once, on threads
CanServe_Threads(w) == TRUE

\* a worker takes a request when it serves no other: the resolvers are plain
\* functions, which the worker runs to their end one after another
CanServe(w) ==
    \A q \in Reqs : reqs[q].worker = w => reqs[q].pc \in {"free", "done"}

\* the request of another slot has a change pending
Overlap(r) == \E q \in Reqs \ {r} : reqs[q].pc = "staged"

\* the rows by id ascending
Ascending(db) ==
    LET d == OrderByIdDesc(db)
    IN  [i \in 1..Len(d) |-> d[Len(d) + 1 - i]]

\* commit() flushes the changes the Session holds, in order, in one transaction:
\* INSERT, UPDATE of the columns set WHERE id, DELETE WHERE id.  added pairs
\* each request with the id of the row inserted for it.
RECURSIVE Flush(_, _, _, _)
Flush(db, sq, clk, changes) ==
    IF changes = << >>
    THEN [exc |-> NoExc, db |-> db, seq |-> sq, clock |-> clk, added |-> {}]
    ELSE LET ch == Head(changes)
             row == get_post_by_id(db, ch.id)
             ins == create_post(db, sq, clk + 1, ch.fields)
             updated == ApplyUpdates(row, ch.fields)
             step ==
                 IF ch.kind = "add"
                 THEN [exc |-> ins.exc, db |-> ins.db, seq |-> ins.seq, clock |-> clk + 1,
                       added |-> IF ins.exc = NoExc THEN {<<ch.req, ins.ret.id>>} ELSE {}]
                 ELSE IF ch.kind = "set"
                 THEN IF row = NoPost
                      THEN [exc |-> StaleDataError, db |-> db, seq |-> sq,
                            clock |-> clk, added |-> {}]
                      ELSE IF ~StoreAccepts(updated)
                      THEN [exc |-> IntegrityError, db |-> db, seq |-> sq,
                            clock |-> clk, added |-> {}]
                      ELSE [exc |-> NoExc, db |-> (db \ {row}) \cup {updated},
                            seq |-> sq, clock |-> clk, added |-> {}]
                 ELSE [exc |-> NoExc, db |-> db \ {row}, seq |-> sq,
                       clock |-> clk, added |-> {}]
             rest == Flush(step.db, step.seq, step.clock, Tail(changes))
         IN  IF step.exc # NoExc THEN step
             ELSE [rest EXCEPT !.added = @ \cup step.added]

\* mutant: every column of the loaded row is written back
DirtyFields_AllColumns(db_post, update_fields) ==
    Input(IF update_fields.title = Unset THEN db_post.title ELSE update_fields.title,
          IF update_fields.content = Unset THEN db_post.content ELSE update_fields.content,
          IF update_fields.author = Unset THEN db_post.author ELSE update_fields.author)

\* what the setattr loop leaves to flush: the fields of update_fields whose
\* value differs from the one loaded; the UPDATE sets these columns only
DirtyFields(db_post, update_fields) ==
    Input(IF update_fields.title = db_post.title THEN Unset ELSE update_fields.title,
          IF update_fields.content = db_post.content THEN Unset ELSE update_fields.content,
          IF update_fields.author = db_post.author THEN Unset ELSE update_fields.author)

\* CreateNewPost.mutate up to db.add(db_post)
StageCreate(r, inputs, ws, max_id) ==
    \E input \in inputs, w \in ws :
        LET post_data == PostCreateSchema(input)
        IN  /\ last = Idle
            /\ reqs[r].pc = "free"
            /\ CanServe(w)
            /\ seq < max_id
            /\ IF post_data.errors # << >>
               THEN /\ reqs' = [reqs EXCEPT ![r] =
                           Req("done", "createNewPost", 0, input, 0, 0, w, "none", 0,
                               Overlap(r), NoPost, 0, 0, FALSE,
                               format_validation_errors(post_data), NoPost, << >>)]
                    /\ pend' = pend
               ELSE /\ reqs' = [reqs EXCEPT ![r] =
                           Req("staged", "createNewPost", 0, input, 0, 0, w, "pending", 0,
                               Overlap(r), NoPost, 0, 0, TRUE, NoExc, NoPost, << >>)]
                    /\ pend' = [pend EXCEPT ![w] =
                           Append(@, Change(r, "add", 0,
                                            Input(post_data.title, post_data.content,
                                                  post_data.author)))]
            /\ UNCHANGED <<posts, seq, clock, last, session, raised, issued>>

\* UpdatePost.mutate up to the setattr loop of update_post
StageUpdate(r, ids, inputs, ws) ==
    \E id \in ids, input \in inputs, w \in ws :
        LET out == update_post(posts, seq, id, input)
            validated_data == PostUpdateSchema(input)
        IN  /\ last = Idle
            /\ reqs[r].pc = "free"
            /\ CanServe(w)
            /\ IF out.exc.type \in {"ValueError", "ValidationError"}
               THEN /\ reqs' = [reqs EXCEPT ![r] =
                           Req("done", "updatePost", id, input, 0, 0, w, "none", 0,
                               Overlap(r), get_post_by_id(posts, id), 0, 1, FALSE,
                               MutationError("Failed to update post", out.exc),
                               NoPost, << >>)]
                    /\ pend' = pend
               ELSE /\ reqs' = [reqs EXCEPT ![r] =
                           Req("staged", "updatePost", id, input, 0, 0, w, "pending", 0,
                               Overlap(r), get_post_by_id(posts, id), 0, 1, TRUE,
                               NoExc, NoPost, << >>)]
                    /\ pend' = [pend EXCEPT ![w] =
                           Append(@, Change(r, "set", id,
                                            DirtyFields(get_post_by_id(posts, id),
                                                        validated_data)))]
            /\ UNCHANGED <<posts, seq, clock, last, session, raised, issued>>

\* DeletePost.mutate up to db.delete(db_post)
StageDelete(r, ids, ws) ==
    \E id \in ids, w \in ws :
        LET out == delete_post(posts, seq, id)
        IN  /\ last = Idle
            /\ reqs[r].pc = "free"
            /\ CanServe(w)
            /\ IF out.exc # NoExc
               THEN /\ reqs' = [reqs EXCEPT ![r] =
                           Req("done", "deletePost", id, NoInput, 0, 0, w, "none", 0,
                               Overlap(r), NoPost, 0, 1, FALSE,
                               MutationError("Failed to delete post", out.exc),
                               NoPost, << >>)]
                    /\ pend' = pend
               ELSE /\ reqs' = [reqs EXCEPT ![r] =
                           Req("staged", "deletePost", id, NoInput, 0, 0, w, "pending", 0,
                               Overlap(r), get_post_by_id(posts, id), 0, 1, TRUE,
                               NoExc, NoPost, << >>)]
                    /\ pend' = [pend EXCEPT ![w] =
                           Append(@, Change(r, "delete", id, NoInput))]
            /\ UNCHANGED <<posts, seq, clock, last, session, raised, issued>>

\* the rest of a mutation: commit(), refresh(db_post) and the response; when
\* commit() or refresh() raises, "except Exception" rolls the Session back
Commit(r) ==
    LET me == reqs[r]
        w == me.worker
        res == Flush(posts, seq, clock, pend[w])
        what == IF me.op = "createNewPost" THEN "Failed to create post"
                ELSE IF me.op = "updatePost" THEN "Failed to update post"
                ELSE "Failed to delete post"
        my_id == IF me.op = "createNewPost" /\ me.change = "pending"
                 THEN (CHOOSE a \in res.added : a[1] = r)[2]
                 ELSE me.id
        row == get_post_by_id(res.db, my_id)
        refreshed == me.op = "deletePost" \/ (me.change # "discarded" /\ row # NoPost)
        others(change, db) ==
            [q \in Reqs |->
                IF q # r /\ reqs[q].worker = w /\ reqs[q].change = "pending"
                THEN [reqs[q] EXCEPT
                        !.change = change, !.by = r,
                        !.id = IF change = "committed" /\ reqs[q].op = "createNewPost"
                               THEN (CHOOSE a \in res.added : a[1] = q)[2]
                               ELSE @]
                ELSE reqs[q]]
    IN  /\ last = Idle
        /\ me.pc = "staged"
        /\ pend' = [pend EXCEPT ![w] = << >>]
        /\ IF res.exc # NoExc
           THEN /\ reqs' = [others("discarded", posts) EXCEPT ![r] =
                       [me EXCEPT !.pc = "done", !.ok = FALSE,
                                  !.change = IF @ = "pending" THEN "failed" ELSE @,
                                  !.error = MutationError(what, res.exc)]]
                /\ seq' = res.seq
                /\ UNCHANGED <<posts, clock, issued>>
           ELSE /\ reqs' = [others("committed", res.db) EXCEPT ![r] =
                       [me EXCEPT !.pc = "done",
                                  !.id = my_id,
                                  !.change = IF @ = "pending" THEN "committed" ELSE @,
                                  !.by = IF me.change = "pending" THEN r ELSE @,
                                  !.ok = refreshed,
                                  !.error = IF refreshed THEN NoExc
                                            ELSE MutationError(what, InvalidRequestError),
                                  !.post = IF refreshed /\ me.op # "deletePost"
                                           THEN row ELSE NoPost]]
                /\ posts' = res.db
                /\ seq' = res.seq
                /\ clock' = res.clock
                /\ issued' = issued \o
                       LET new == Ascending({p \in res.db : \E a \in res.added : a[2] = p.id})
                       IN  [i \in 1..Len(new) |->
                               [id |-> new[i].id, time_created |-> new[i].time_created]]
        /\ UNCHANGED <<last, session, raised>>

\* mutant: the count is read before the arguments are checked
PaginateFirst_CountFirst(db, page, limit) ==
    [exc |-> PaginationArgError(page, limit), reads |-> 1, count |-> Cardinality(db)]

\* get_posts_paginated up to the count query
PaginateFirst(db, page, limit) ==
    IF PaginationArgError(page, limit) # NoExc
    THEN [exc |-> PaginationArgError(page, limit), reads |-> 0, count |-> 0]
    ELSE [exc |-> NoExc, reads |-> 1, count |-> Cardinality(db)]

\* get_posts_paginated from the metadata on: the page query and the result
PaginateSecond(db, total_count, page, limit) ==
    Page(OffsetLimit(OrderByIdDesc(db), (page - 1) * limit, limit),
         total_count, TotalPages(total_count, limit), page,
         page < TotalPages(total_count, limit), page > 1)

\* Query.resolve_posts up to the count query
PostsCount(r, pages, limits, ws) ==
    \E page \in pages, limit \in limits, w \in ws :
        LET first == PaginateFirst(posts, page, limit)
        IN  /\ last = Idle
            /\ reqs[r].pc = "free"
            /\ CanServe(w)
            /\ reqs' = [reqs EXCEPT ![r] =
                   Req(IF first.exc = NoExc THEN "counted" ELSE "done",
                       "posts", 0, NoInput, page, limit, w, "none", 0, Overlap(r),
                       NoPost, first.count, first.reads, first.exc = NoExc, first.exc,
                       NoPost, << >>)]
            /\ UNCHANGED <<posts, seq, clock, last, session, raised, issued, pend>>

\* Query.resolve_posts from the page query on
PostsSelect(r) ==
    LET me == reqs[r]
        got == PaginateSecond(posts, me.count, me.page, me.limit)
    IN  /\ last = Idle
        /\ me.pc = "counted"
        /\ reqs' = [reqs EXCEPT ![r] =
               [me EXCEPT !.pc = "done", !.reads = @ + 1, !.items = got.items]]
        /\ UNCHANGED <<posts, seq, clock, last, session, raised, issued, pend>>

\* the response of the request leaves
Respond(r) ==
    /\ last = Idle
    /\ reqs[r].pc = "done"
    /\ reqs' = [q \in Reqs |-> IF q = r THEN Free ELSE [reqs[q] EXCEPT !.overlap = FALSE]]
    /\ UNCHANGED <<posts, seq, clock, last, session, raised, issued, pend>>

---------------------------------------------------------------------------
(* The requests of the model *)

Empty == << >>
Blank == << Run(" ", 1), Run("\t", 1) >>
Padded == << Run(" ", 2), Run("a", 1), Run(" ", 1), Run("b", 1), Run("\t", 1) >>
Exactly(n) == << Run("x", n) >>
TooLong(n) == << Run(" ", 1), Run("x", n) >>

TitleInputs == {Empty, Blank, Padded, Exactly(MaxTitleLen), TooLong(MaxTitleLen)}
ContentInputs == {Empty, Blank, Padded, Exactly(MaxContentLen), TooLong(MaxContentLen)}
AuthorInputs == {Empty, Blank, Padded, Exactly(MaxAuthorLen), TooLong(MaxAuthorLen)}

CreateInputs ==
    { Input(t, c, a) : t \in TitleInputs, c \in ContentInputs, a \in AuthorInputs }

UpdateInputs ==
    { Input(t, c, a) : t \in TitleInputs \cup {Unset, None},
                       c \in ContentInputs \cup {Unset, None},
                       a \in AuthorInputs \cup {Unset, None} }

Ids == 1..(MaxId + 1)

Pages == 0..MaxPage
Limits == {0, 1, 2, 3, MaxLimit, MaxLimit + 1}

Next ==
    \/ CreateNewPost(CreateInputs, MaxId)
    \/ UpdatePost(Ids, UpdateInputs)
    \/ DeletePost(Ids)
    \/ PostById(Ids)
    \/ AllPosts
    \/ Posts(Pages, Limits)
    \/ ReturnResponse

Spec == Init /\ [][Next]_vars

\* the pagination specification: more rows, one valid input
PageInputs == { Input(Padded, Padded, Padded) }
PageIds == 1..(MaxPageId + 1)

NextPage ==
    \/ CreateNewPost(PageInputs, MaxPageId)
    \/ DeletePost(PageIds)
    \/ Posts(Pages, Limits)
    \/ ReturnResponse

SpecPage == Init /\ [][NextPage]_vars

\* the specification of updates called with a field map that carries further
\* keys: update_post takes any Dict[str, Any]
ExtraKeys == SUBSET {<<"id", MaxId + 1>>, <<"time_created", 0>>}

KeyInputs ==
    { [title |-> t, content |-> Unset, author |-> Unset, extra |-> e] :
          t \in {Unset, Blank, Padded, Exactly(MaxTitleLen)}, e \in ExtraKeys }

NextKeys ==
    \/ CreateNewPost(PageInputs, MaxId + 1)
    \/ UpdatePost(Ids, KeyInputs)
    \/ DeletePost(Ids)
    \/ ReturnResponse

SpecKeys == Init /\ [][NextKeys]_vars

\* the specification of the schemas on every kind of value: PostCreateSchema
\* and PostUpdateSchema are built from any field map, also one that lacks a
\* required key or carries a null
SchemaInputs ==
    { Input(t, Padded, a) :
          t \in {Unset, None, Empty, Blank, Padded, TooLong(MaxTitleLen)},
          a \in {Unset, Blank, Padded, TooLong(MaxAuthorLen)} }

SchemaUpdateInputs ==
    { Input(t, c, a) :
          t \in {Unset, None, Empty, Blank, Padded, TooLong(MaxTitleLen)},
          c \in {Unset, TooLong(MaxContentLen)},
          a \in {Unset, Blank, Padded, TooLong(MaxAuthorLen)} }

NextSchema ==
    \/ CreateNewPost(SchemaInputs, MaxId)
    \/ UpdatePost(Ids, SchemaUpdateInputs)
    \/ ReturnResponse

SpecSchema == Init /\ [][NextSchema]_vars

\* the specification of the workers: the requests of two worker processes run
\* statement by statement against the store
WorkerUpdateInputs ==
    { Input(Exactly(MaxTitleLen), Unset, Unset),
      Input(Unset, Unset, Exactly(MaxAuthorLen)),
      Input(None, Unset, Unset),
      Input(Blank, Unset, Unset) }

\* the workers a request in slot r may be routed to
Routes(r) == {1, r}

NextWorkers ==
    \/ \E r \in Reqs : StageCreate(r, PageInputs, Routes(r), MaxId)
    \/ \E r \in Reqs : StageUpdate(r, 1..MaxId, WorkerUpdateInputs, Routes(r))
    \/ \E r \in Reqs : StageDelete(r, 1..MaxId, Routes(r))
    \/ \E r \in Reqs : Commit(r)
    \/ \E r \in Reqs : Respond(r)

SpecWorkers == Init /\ [][NextWorkers]_vars

\* the specification of posts read while other requests write
NextSnapshot ==
    \/ \E r \in Reqs : StageCreate(r, PageInputs, Routes(r), MaxId)
    \/ \E r \in Reqs : StageDelete(r, 1..MaxId, Routes(r))
    \/ \E r \in Reqs : Commit(r)
    \/ \E r \in Reqs : PostsCount(r, {0, 1, 2}, {0, 1, 2, MaxLimit + 1}, Routes(r))
    \/ \E r \in Reqs : PostsSelect(r)
    \/ \E r \in Reqs : Respond(r)

SpecSnapshot == Init /\ [][NextSnapshot]_vars

\* the specification with store failures: the commit of any mutation may fail
FaultInputs ==
    { Input(t, Padded, a) : t \in {Blank, Padded, Exactly(MaxTitleLen)},
                            a \in {Padded} }

FaultUpdateInputs ==
    { Input(t, Unset, a) : t \in {Unset, None, Blank, Padded, Exactly(MaxTitleLen)},
                           a \in {Unset, Exactly(MaxAuthorLen)} }

NextFault ==
    \/ CreateNewPost(FaultInputs, MaxId)
    \/ UpdatePost(Ids, FaultUpdateInputs)
    \/ DeletePost(Ids)
    \/ CreateNewPostFault(FaultInputs, MaxId)
    \/ UpdatePostFault(Ids, FaultUpdateInputs)
    \/ DeletePostFault(Ids)
    \/ PostById(Ids)
    \/ AllPosts
    \/ Posts({1, 2}, {1, 2})
    \/ ReturnResponse

SpecFault == Init /\ [][NextFault]_vars

---------------------------------------------------------------------------
(* Vocabulary of the properties *)

Fields == {"title", "content", "author"}

MaxLenOf(f) ==
    IF f = "title" THEN MaxTitleLen
    ELSE IF f = "content" THEN MaxContentLen
    ELSE MaxAuthorLen

\* the value is blank: empty, or whitespace only
IsBlank(v) == strip(v) = << >>

\* the row with this id among rows, or NoPost
RowOf(rows, id) == IF \E r \in rows : r.id = id THEN CHOOSE r \in rows : r.id = id ELSE NoPost

Exists(rows, id) == \E r \in rows : r.id = id

Created == last.op = "createNewPost"
Updated == last.op = "updatePost"
Deleted == last.op = "deletePost"
Paginated == last.op = "posts"

\* C1: a create whose three values are within the length bounds as supplied and
\* non-blank after trimming succeeds, adds exactly one row, and that row holds
\* the trimmed inputs.
C1_CreateStoresTrimmed ==
    (Created /\ \A f \in Fields :
                    ~IsBlank(last.input[f]) /\ len(last.input[f]) <= MaxLenOf(f))
    => /\ last.ok
       /\ last.error = NoExc
       /\ last.post \notin last.before
       /\ posts = last.before \cup {last.post}
       /\ Cardinality(posts) = Cardinality(last.before) + 1
       /\ \A f \in Fields : last.post[f] = strip(last.input[f])

\* a create of a padded title and a content of exactly the maximum length succeeded
C1_Witness ==
    /\ Created /\ last.ok
    /\ last.input.title = Padded
    /\ last.input.content = Exactly(MaxContentLen)
    /\ last.post.title = << Run("a", 1), Run(" ", 1), Run("b", 1) >>
    /\ last.post \in posts

\* C2: a create in which at least one field is empty or whitespace-only fails
\* with a validation failure and inserts no row.
C2_CreateBlankRejected ==
    (Created /\ \E f \in Fields : IsBlank(last.input[f]))
    => /\ ~last.ok
       /\ last.error.type = "ValidationError"
       /\ \E e \in 1..Len(last.error.errors) :
              IsBlank(last.input[last.error.errors[e].loc])
       /\ last.post = NoPost
       /\ posts = last.before

\* a create with a whitespace-only author and otherwise valid fields was rejected
\* while the store held a row
C2_Witness ==
    /\ Created /\ ~last.ok
    /\ last.input.author = Blank
    /\ last.input.title = Padded /\ last.input.content = Padded
    /\ last.before # {}

\* C3: a successful update sets each supplied field to the trimmed supplied
\* value and leaves every other field of the post, and every other row, as it was.
C3_UpdateFrame ==
    (Updated /\ last.ok)
    => LET old == RowOf(last.before, last.id)
           new == RowOf(posts, last.id)
       IN  /\ old # NoPost /\ new # NoPost
           /\ last.post = new
           /\ \A f \in Fields :
                  new[f] = IF last.input[f] = Unset THEN old[f]
                           ELSE strip(last.input[f])
           /\ new.id = old.id
           /\ new.time_created = old.time_created
           /\ posts \ {new} = last.before \ {old}

\* an update of the author alone succeeded on a post whose title and content
\* differ from the ones it was created with, beside another row
C3_Witness ==
    /\ Updated /\ last.ok
    /\ last.input.title = Unset /\ last.input.content = Unset
    /\ last.input.author = Padded
    /\ LET old == RowOf(last.before, last.id)
           new == RowOf(posts, last.id)
       IN  /\ old.author = Exactly(MaxAuthorLen)
           /\ new.author = strip(Padded)
           /\ new.title = Exactly(MaxTitleLen)
           /\ new.content = strip(Padded)
    /\ Cardinality(posts) = 2

\* C4: update(id, {}) on an existing post succeeds and changes nothing.
C4_EmptyUpdateNoOp ==
    (Updated /\ last.input = NoInput /\ Exists(last.before, last.id))
    => /\ last.ok
       /\ last.error = NoExc
       /\ last.post = RowOf(last.before, last.id)
       /\ posts = last.before

\* an update without fields answered on a store of two rows
C4_Witness ==
    /\ Updated /\ last.input = NoInput /\ last.ok
    /\ Exists(last.before, last.id)
    /\ Cardinality(last.before) = 2

\* a supplied value that is blank or longer than its bound
IsInvalid(f, v) == IsStr(v) /\ (IsBlank(v) \/ len(v) > MaxLenOf(f))

\* C5: an update of an existing post in which any supplied field is empty,
\* whitespace-only or too long fails validation and changes no field, also
\* not the valid fields of the same call.
C5_UpdateAllOrNothing ==
    (Updated /\ Exists(last.before, last.id)
        /\ \E f \in Fields : IsInvalid(f, last.input[f]))
    => /\ ~last.ok
       /\ last.error.type = "ValidationError"
       /\ last.post = NoPost
       /\ posts = last.before

\* an update with a valid new title and a too long author was rejected, on a
\* post whose title differs from the valid one supplied
C5_Witness ==
    /\ Updated /\ ~last.ok
    /\ last.input.title = Padded
    /\ last.input.author = TooLong(MaxAuthorLen)
    /\ Exists(posts, last.id)
    /\ RowOf(posts, last.id).title = Exactly(MaxTitleLen)

\* C6: update or delete of an id not in the store fails with NotFound naming
\* the id, and leaves the store unchanged; so does a second delete.
C6_NotFound ==
    ((Updated \/ Deleted) /\ ~Exists(last.before, last.id))
    => /\ ~last.ok
       /\ last.error.type = "ValueError"
       /\ last.error.text = "Post with id {post_id} not found"
       /\ last.error.arg = last.id
       /\ posts = last.before

\* a delete of an id that was assigned and deleted before failed, another row
\* being in the store
C6_Witness ==
    /\ Deleted /\ ~last.ok
    /\ last.id <= seq
    /\ ~Exists(last.before, last.id)
    /\ posts # {}

\* C7: after a successful delete the id is absent, and every other row is
\* present with the same values.
C7_SelectiveDelete ==
    (Deleted /\ last.ok)
    => /\ Exists(last.before, last.id)
       /\ get_post_by_id(posts, last.id) = NoPost
       /\ posts = last.before \ {RowOf(last.before, last.id)}
       /\ Cardinality(posts) = Cardinality(last.before) - 1

\* a delete removed one of two rows
C7_Witness ==
    /\ Deleted /\ last.ok
    /\ Cardinality(last.before) = 2
    /\ Cardinality(posts) = 1

\* C8: postById of an id not in the store yields null and no error.
C8_GetAbsent ==
    (last.op = "postById" /\ ~Exists(last.before, last.id))
    => /\ last.ok
       /\ last.error = NoExc
       /\ last.post = NoPost
       /\ posts = last.before

\* postById of an id never assigned, on a store that holds rows
C8_Witness ==
    /\ last.op = "postById"
    /\ last.id > seq
    /\ last.post = NoPost
    /\ posts # {}

\* C9: paginate fails exactly when page < 1, limit < 1 or limit > 100, with
\* the message of a rule the arguments violate (of the one rule, when one is
\* violated), and returns a result otherwise.
C9_PaginateArguments ==
    Paginated
    => /\ ~last.ok <=> (last.page < 1 \/ last.limit < 1 \/ last.limit > 100)
       /\ last.ok => last.error = NoExc /\ last.pagination # NoPage
       /\ ~last.ok =>
            /\ last.error.type = "ValueError"
            /\ \/ last.error.text = "page must be >= 1" /\ last.page < 1
               \/ last.error.text = "limit must be >= 1" /\ last.limit < 1
               \/ last.error.text = "limit cannot exceed 100" /\ last.limit > 100
            /\ (last.page >= 1 /\ last.limit < 1)
                   => last.error.text = "limit must be >= 1"
            /\ (last.page >= 1 /\ last.limit > 100)
                   => last.error.text = "limit cannot exceed 100"

\* a request of page 1 with limit 101 was refused
C9_Witness ==
    /\ Paginated /\ ~last.ok
    /\ last.page = 1 /\ last.limit = 101
    /\ last.error.text = "limit cannot exceed 100"

\* C10: in a valid paginate call total_count is the number of rows, and
\* total_pages is the least number of pages of limit rows that hold them all, and
\* 1 for an empty store; so total_pages >= 1.
C10_TotalPages ==
    (Paginated /\ last.ok)
    => LET n == Cardinality(last.before)
           tp == last.pagination.total_pages
       IN  /\ last.pagination.total_count = n
           /\ tp >= 1
           /\ n = 0 => tp = 1
           /\ n > 0 => /\ tp * last.limit >= n
                       /\ (tp - 1) * last.limit < n

\* three rows paginated by two make two pages
C10_Witness ==
    /\ Paginated /\ last.ok
    /\ Cardinality(last.before) = 3
    /\ last.limit = 2
    /\ last.pagination.total_pages = 2

\* the number of rows of rows with an id above that of r: the rank of r when
\* the rows are sorted by id descending
Rank(rows, r) == Cardinality({x \in rows : x.id > r.id})

ItemSet(items) == {items[i] : i \in 1..Len(items)}

\* C11: the items of a valid paginate call are the rows at ranks
\* [(page-1)*limit, page*limit) of all rows sorted by id descending, in that
\* order: strictly decreasing ids, at most limit items.
C11_PageItems ==
    (Paginated /\ last.ok)
    => /\ Len(last.items) <= last.limit
       /\ \A i \in 1..Len(last.items) :
              /\ last.items[i] \in last.before
              /\ Rank(last.before, last.items[i]) = (last.page - 1) * last.limit + i - 1
       /\ \A i \in 1..(Len(last.items) - 1) : last.items[i].id > last.items[i + 1].id
       /\ ItemSet(last.items) =
              {r \in last.before :
                  /\ Rank(last.before, r) >= (last.page - 1) * last.limit
                  /\ Rank(last.before, r) < last.page * last.limit}

\* five posts with ids 1..5, page 2 of limit 3: the posts 2 and 1, in that order
C11_Witness ==
    /\ Paginated /\ last.ok
    /\ {r.id : r \in last.before} = 1..5
    /\ last.page = 2 /\ last.limit = 3
    /\ Len(last.items) = 2
    /\ last.items[1].id = 2 /\ last.items[2].id = 1
    /\ last.pagination.total_pages = 2
    /\ ~last.pagination.has_next_page
    /\ last.pagination.has_previous_page

\* the items of page p of the rows, by limit
PageItems(rows, p, limit) == get_posts_paginated(rows, p, limit).ret.items

RECURSIVE SumOfLens(_, _, _)
SumOfLens(rows, limit, p) ==
    IF p = 0 THEN 0
    ELSE Len(PageItems(rows, p, limit)) + SumOfLens(rows, limit, p - 1)

\* C12: on an unchanged store and with a fixed limit, the pages 1..total_pages
\* partition the rows: the item counts sum to the row count and every row is on
\* exactly one page, once.
C12_PagesPartition ==
    (Paginated /\ last.ok)
    => LET tp == last.pagination.total_pages
           L == last.limit
       IN  /\ posts = last.before
           /\ last.page <= tp => last.items = PageItems(posts, last.page, L)
           /\ SumOfLens(posts, L, tp) = Cardinality(posts)
           /\ \A r \in posts :
                  Cardinality({ <<p, i>> \in (1..tp) \X (1..L) :
                                   /\ i <= Len(PageItems(posts, p, L))
                                   /\ PageItems(posts, p, L)[i] = r }) = 1

\* five rows by pages of two: three pages, the last one holding one row
C12_Witness ==
    /\ Paginated /\ last.ok
    /\ Cardinality(posts) = 5
    /\ last.limit = 2 /\ last.page = 3
    /\ last.pagination.total_pages = 3
    /\ Len(last.items) = 1

\* C13: has_next_page = (page < total_pages) and has_previous_page = (page > 1);
\* on an unchanged store has_next_page holds exactly when page + 1 has an item.
C13_NextAndPrevious ==
    (Paginated /\ last.ok)
    => /\ last.pagination.has_next_page <=> (last.page < last.pagination.total_pages)
       /\ last.pagination.has_previous_page <=> (last.page > 1)
       /\ last.pagination.has_next_page
              <=> (PageItems(posts, last.page + 1, last.limit) # << >>)

\* page 2 of 3 has a next and a previous page
C13_Witness ==
    /\ Paginated /\ last.ok
    /\ last.page = 2 /\ last.pagination.total_pages = 3
    /\ last.pagination.has_next_page
    /\ last.pagination.has_previous_page

\* C14: a page beyond total_pages, with a valid limit, is answered without
\* clamping: no items, the requested page, the true counts, no next page, a
\* previous page.
C14_BeyondLastPage ==
    (Paginated /\ last.limit >= 1 /\ last.limit <= 100 /\ last.page >= 1
        /\ last.page * last.limit >= Cardinality(last.before) + last.limit
        /\ last.page > 1)
    => /\ last.ok
       /\ last.error = NoExc
       /\ last.items = << >>
       /\ last.pagination.current_page = last.page
       /\ last.pagination.total_count = Cardinality(last.before)
       /\ last.pagination.total_pages < last.page
       /\ last.pagination.total_pages >= 1
       /\ (last.pagination.total_pages - 1) * last.limit < Cardinality(last.before)
              \/ Cardinality(last.before) = 0
       /\ ~last.pagination.has_next_page
       /\ last.pagination.has_previous_page

\* page 3 of a store of three rows by pages of two
C14_Witness ==
    /\ Paginated /\ last.ok
    /\ Cardinality(last.before) = 3
    /\ last.limit = 2 /\ last.page = 3
    /\ last.pagination.total_pages = 2
    /\ last.items = << >>

\* C15: in every reachable state, whatever calls succeeded or failed before,
\* the title, content and author of every stored post are non-null, non-empty
\* and not whitespace-only.
C15_FieldsNeverBlank ==
    \A r \in posts : \A f \in Fields :
        /\ r[f] # None
        /\ r[f] # Unset
        /\ r[f] # << >>
        /\ ~IsBlank(r[f])

\* an update setting the title to null was refused by the store, after the
\* validation layer let it pass, and the row kept its title
C15_Witness ==
    /\ Updated /\ ~last.ok
    /\ last.input.title = None
    /\ raised.type = "IntegrityError"
    /\ Exists(posts, last.id)
    /\ RowOf(posts, last.id).title = strip(Padded)

\* C16: in every reachable state each stored title, content and author has no
\* leading or trailing whitespace and a length within 1..200, 1..10000 and
\* 1..100.
C16_StoredTrimmed ==
    \A r \in posts : \A f \in Fields :
        /\ IsStr(r[f])
        /\ len(r[f]) >= MinLen
        /\ len(r[f]) <= MaxLenOf(f)
        /\ r[f][1].c \notin Whitespace
        /\ r[f][Len(r[f])].c \notin Whitespace

\* an update supplied a padded title and a padded author; the row holds both
\* trimmed
C16_Witness ==
    /\ Updated /\ last.ok
    /\ last.input.title = Padded /\ last.input.author = Padded
    /\ RowOf(last.before, last.id).title = Exactly(MaxTitleLen)
    /\ RowOf(posts, last.id).title = << Run("a", 1), Run(" ", 1), Run("b", 1) >>
    /\ RowOf(posts, last.id).author = << Run("a", 1), Run(" ", 1), Run("b", 1) >>

\* the id and time_created of the rows
Keys(rows) == { [id |-> r.id, time_created |-> r.time_created] : r \in rows }

\* C17: the id and time_created of a stored post are the ones assigned at its
\* insert, whatever updates were called since, including updates whose field
\* map carries the keys id or time_created; an update changes the id and
\* time_created of no row.
C17_KeysImmutable ==
    /\ \A k \in Keys(posts) : \E i \in 1..Len(issued) : issued[i] = k
    /\ Updated => Keys(posts) = Keys(last.before)
    /\ (Updated /\ last.ok)
       => /\ last.post.id = last.id
          /\ last.post.time_created = RowOf(last.before, last.id).time_created

\* an update whose field map carried a title, an id and a time_created
\* succeeded: the title changed, the id and time_created did not
C17_Witness ==
    /\ Updated /\ last.ok
    /\ last.input.title = Padded
    /\ last.input.extra = {<<"id", MaxId + 1>>, <<"time_created", 0>>}
    /\ RowOf(posts, last.id).title = strip(Padded)
    /\ RowOf(last.before, last.id).title = Exactly(MaxTitleLen)
    /\ RowOf(posts, last.id).time_created = RowOf(last.before, last.id).time_created
    /\ RowOf(posts, last.id).time_created > 0
    /\ Cardinality(posts) = 2

Mutated == Created \/ Updated \/ Deleted

\* C19: a create, update or delete that returns success has committed: its
\* change is in the store when the response is built, the reads that follow
\* answer from the committed rows, and a request that fails, with the rollback
\* that follows it, leaves every committed row as it was.
C19_CommittedOnSuccess ==
    /\ (Created /\ last.ok)
       => /\ last.post \in posts
          /\ posts = last.before \cup {last.post}
    /\ (Updated /\ last.ok)
       => /\ last.post \in posts
          /\ posts \ {last.post} = last.before \ {RowOf(last.before, last.id)}
    /\ (Deleted /\ last.ok)
       => /\ ~Exists(posts, last.id)
          /\ posts = last.before \ {RowOf(last.before, last.id)}
    /\ (Mutated /\ ~last.ok) => posts = last.before
    /\ last.op \in {"postById", "allPosts", "posts"} => posts = last.before
    /\ last.op = "postById" => last.ok /\ last.post = RowOf(posts, last.id)
    /\ last.op = "allPosts"
       => /\ last.ok
          /\ ItemSet(last.items) = posts
          /\ Len(last.items) = Cardinality(posts)
    /\ (Paginated /\ last.ok)
       => /\ last.pagination.total_count = Cardinality(posts)
          /\ ItemSet(last.items) \subseteq posts

\* the commit of a delete failed and was rolled back on a store of two rows:
\* the row it aimed at still holds the author an earlier update committed
C19_Witness ==
    /\ Deleted /\ ~last.ok
    /\ raised = OperationalError
    /\ Cardinality(posts) = 2
    /\ Exists(posts, last.id)
    /\ RowOf(posts, last.id).author = Exactly(MaxAuthorLen)
    /\ RowOf(posts, last.id).title = strip(Padded)

\* the store rejected the commit of the request in progress
StoreRejected == raised.type \in {"IntegrityError", "OperationalError"}

\* C20: when the store rejects the commit of a create, update or delete, the
\* store holds exactly the rows it held before the call, the response is a
\* failure that is neither a validation failure nor a not-found, and the Session
\* has been rolled back: no request is failed by the error of an earlier one.
C20_StoreFailureRollsBack ==
    /\ StoreRejected
       => /\ Mutated
          /\ posts = last.before
          /\ ~last.ok
          /\ last.post = NoPost
          /\ last.error.type = "Exception"
          /\ last.error.type \notin {"ValidationError", "ValueError"}
          /\ session = "active"
    /\ raised.type # "PendingRollbackError"
    /\ last.error.type # "PendingRollbackError"
    /\ session = "active"

\* the store refused an update that set the title to null, on a store of two
\* rows: both rows are as before and the Session is active
C20_Witness ==
    /\ Updated /\ ~last.ok
    /\ raised = IntegrityError
    /\ last.input.title = None
    /\ last.error.type = "Exception"
    /\ Cardinality(posts) = 2
    /\ posts = last.before
    /\ session = "active"

\* C21: every input that passes the validation of the schemas is accepted by
\* the constraints of the store, for omitted, null and string-valued fields
\* alike: a create or an update of an existing post whose input has no
\* validation error succeeds, and no response comes from a constraint of the
\* store.
C21_ValidatedIsStorable ==
    /\ raised.type # "IntegrityError"
    /\ (Created /\ PostCreateSchema(last.input).errors = << >>) => last.ok
    /\ (Updated /\ Exists(last.before, last.id)
            /\ PostUpdateSchema(last.input).errors = << >>) => last.ok

\* C22: a mutation answers ok = true exactly when it changed the store as
\* requested, then without an error and, for create and update, with the
\* persisted post; it answers ok = false exactly when it carries an error, then
\* without a post and with the store unchanged.
C22_MutationEnvelope ==
    Mutated
    => /\ last.ok <=> last.error = NoExc
       /\ last.ok <=> raised = NoExc
       /\ (last.ok /\ (Created \/ Updated))
          => /\ last.post # NoPost
             /\ last.post \in posts
       /\ (last.ok /\ Created)
          => /\ last.post \notin last.before
             /\ posts = last.before \cup {last.post}
       /\ (last.ok /\ Updated)
          => /\ last.post.id = last.id
             /\ \A f \in Fields :
                    last.input[f] # Unset => last.post[f] = strip(last.input[f])
       /\ (last.ok /\ Deleted)
          => /\ last.post = NoPost
             /\ Exists(last.before, last.id)
             /\ ~Exists(posts, last.id)
       /\ ~last.ok
          => /\ last.post = NoPost
             /\ last.error.type \in {"ValidationError", "ValueError", "Exception"}
             /\ posts = last.before

\* a delete of an id that is not in the store answered ok = false with an
\* error, on a store of two rows
C22_Witness ==
    /\ Deleted /\ ~last.ok
    /\ last.error = NotFoundError(last.id)
    /\ last.post = NoPost
    /\ Cardinality(posts) = 2

\* the message of the rule the value v of field f violates in a create (op =
\* "create") or an update, "" if none
RuleViolated(op, f, v) ==
    IF v = Unset
    THEN IF op = "create" THEN "Field required" ELSE ""
    ELSE IF v = None
    THEN IF op = "create" THEN "Input should be a valid string" ELSE ""
    ELSE IF len(v) = 0 THEN "String should have at least 1 character"
    ELSE IF len(v) > MaxLenOf(f) THEN "String should have at most max_length characters"
    ELSE IF IsBlank(v) THEN "Value error, cannot be empty or whitespace only"
    ELSE ""

\* what the error of the response says of each field: the pairs (field, message)
Reported(e) == { <<e.errors[i].loc, e.errors[i].msg>> : i \in 1..Len(e.errors) }

\* C23: a create, or an update of an existing post, fails validation exactly
\* when a field violates a rule, and the error then names every field in
\* violation with the rule it violates and no other field; a validation failure
\* is none of the not-found and store failures.
C23_ValidationPerField ==
    (Created \/ (Updated /\ Exists(last.before, last.id)))
    => LET op == IF Created THEN "create" ELSE "update"
           bad == { f \in Fields : RuleViolated(op, f, last.input[f]) # "" }
       IN  /\ (bad # {}) <=> (last.error.type = "ValidationError")
           /\ (bad # {}) <=> (raised.type = "ValidationError")
           /\ bad # {}
              => /\ ~last.ok
                 /\ Reported(last.error)
                        = { <<f, RuleViolated(op, f, last.input[f])>> : f \in bad }
                 /\ Len(last.error.errors) = Cardinality(bad)
                 /\ last.error # NotFoundError(last.id)
                 /\ last.error.type \notin {"ValueError", "Exception"}

\* an update with an empty title, a too long content and a valid author
\* reported the title and the content, each with its rule
C23_Witness ==
    /\ Updated /\ ~last.ok
    /\ last.input.title = Empty
    /\ last.input.content = TooLong(MaxContentLen)
    /\ last.input.author = Padded
    /\ Reported(last.error)
           = { <<"title", "String should have at least 1 character">>,
               <<"content", "String should have at most max_length characters">> }

\* the value of field f as supplied passes: between 1 and the bound in length,
\* not blank
Acceptable(f, v) ==
    /\ len(v) >= MinLen
    /\ len(v) <= MaxLenOf(f)
    /\ len(strip(v)) >= 1

\* C25: the maximum length is checked on each value as supplied, before
\* trimming: a create, or an update of an existing post, of string values
\* succeeds exactly when every supplied value has a raw length between 1 and
\* its bound and a non-empty trimmed form; the bound itself passes, bound + 1
\* fails also when the trimmed value would fit.
C25_LengthBeforeTrim ==
    /\ Created
       => (last.ok <=> \A f \in Fields : Acceptable(f, last.input[f]))
    /\ (Updated /\ Exists(last.before, last.id)
            /\ \A f \in Fields : last.input[f] # None)
       => (last.ok <=> \A f \in Fields :
                           last.input[f] = Unset \/ Acceptable(f, last.input[f]))
    /\ (Created \/ Updated)
       => \A f \in Fields :
              (IsStr(last.input[f]) /\ len(last.input[f]) = MaxLenOf(f) + 1) => ~last.ok

\* a create was refused for a title of 201 characters whose trimmed form has
\* 200, its content having exactly 10000 and its author being valid
C25_Witness ==
    /\ Created /\ ~last.ok
    /\ last.input.title = TooLong(MaxTitleLen)
    /\ len(last.input.title) = MaxTitleLen + 1
    /\ len(strip(last.input.title)) = MaxTitleLen
    /\ last.input.content = Exactly(MaxContentLen)
    /\ last.input.author = Padded
    /\ Len(last.error.errors) = 1

\* C27: update looks the id up before it validates: an update of an id that
\* is not in the store fails as not found whatever its fields, and a validation
\* failure of an update is reported only for an id that is in the store.
C27_LookupBeforeValidation ==
    Updated
    => /\ ~Exists(last.before, last.id)
          => /\ raised = NotFoundError(last.id)
             /\ last.error.type = "ValueError"
       /\ last.error.type = "ValidationError" => Exists(last.before, last.id)

\* an update of an absent id with an empty title and a too long author was
\* answered as not found
C27_Witness ==
    /\ Updated /\ ~last.ok
    /\ ~Exists(last.before, last.id)
    /\ last.input.title = Empty
    /\ last.input.author = TooLong(MaxAuthorLen)
    /\ last.error = NotFoundError(last.id)
    /\ posts # {}

Read == last.op \in {"postById", "allPosts", "posts"}

\* C28: postById, allPosts and posts are read-only: after any of them, with a
\* result, with null or with an error, the store holds the rows and values it
\* held before; allPosts returns every stored row exactly once.
C28_ReadsAreReadOnly ==
    /\ Read
       => /\ posts = last.before
          /\ session = "active"
    /\ last.op = "allPosts"
       => /\ last.ok
          /\ Len(last.items) = Cardinality(last.before)
          /\ \A r \in last.before :
                 Cardinality({i \in 1..Len(last.items) : last.items[i] = r}) = 1
    /\ last.op = "postById"
       => last.post = RowOf(last.before, last.id)

\* allPosts answered the two rows of the store
C28_Witness ==
    /\ last.op = "allPosts"
    /\ Cardinality(posts) = 2
    /\ Len(last.items) = 2
    /\ last.items[1] # last.items[2]

Min(a, b) == IF a < b THEN a ELSE b
Max(a, b) == IF a > b THEN a ELSE b

\* the request in slot r is answered
Done(r) == reqs[r].pc = "done"

\* C24: the total_count and the items of one posts result describe the same
\* state of the store, also when creates and deletes of other requests commit
\* while the call runs: len(items) = min(limit, max(0, total_count -
\* (page - 1) * limit)).
C24_PaginateSnapshot ==
    \A r \in Reqs :
        (Done(r) /\ reqs[r].op = "posts" /\ reqs[r].ok)
        => Len(reqs[r].items)
               = Min(reqs[r].limit,
                     Max(0, reqs[r].count - (reqs[r].page - 1) * reqs[r].limit))

\* C26: posts checks page, then the lower bound of limit, then its upper
\* bound, and all of it before the first query: with page < 1 the error is
\* "page must be >= 1" whatever the limit, and a request refused for its
\* arguments has sent no statement to the store.
C26_ArgumentsBeforeStore ==
    \A r \in Reqs :
        (reqs[r].op = "posts" /\ reqs[r].pc # "free")
        => LET me == reqs[r]
               invalid == me.page < 1 \/ me.limit < 1 \/ me.limit > 100
           IN  /\ invalid <=> (me.error.type = "ValueError")
               /\ invalid
                  => /\ Done(r) /\ ~me.ok
                     /\ me.reads = 0
                     /\ me.count = 0 /\ me.items = << >>
                     /\ me.error.text =
                            IF me.page < 1 THEN "page must be >= 1"
                            ELSE IF me.limit < 1 THEN "limit must be >= 1"
                            ELSE "limit cannot exceed 100"
               /\ ~invalid
                  => /\ me.ok
                     /\ me.reads = IF Done(r) THEN 2 ELSE 1

\* posts with page 0 and limit 101 was refused for its page, without a query,
\* on a store that holds a row, while the other request has a change pending
C26_Witness ==
    \E r \in Reqs :
        /\ Done(r) /\ reqs[r].op = "posts"
        /\ reqs[r].page = 0 /\ reqs[r].limit = 101
        /\ reqs[r].error.text = "page must be >= 1"
        /\ reqs[r].reads = 0
        /\ posts # {}
        /\ \E q \in Reqs : reqs[q].pc = "staged"

\* the request in slot r is a mutation the store has no reason to refuse
Storable(r) == \A f \in Fields : reqs[r].input[f] # None

Supplied(r) == { f \in Fields : reqs[r].input[f] # Unset }

\* C30: when two requests that ran at the same time updated the same post
\* with disjoint fields and both answered ok, the stored post holds the
\* values of both, and every other field holds the value it had.
C30_NoLostUpdate ==
    \A r \in Reqs : \A q \in Reqs \ {r} :
        (/\ Done(r) /\ Done(q)
         /\ reqs[r].op = "updatePost" /\ reqs[q].op = "updatePost"
         /\ reqs[r].ok /\ reqs[q].ok
         /\ reqs[r].id = reqs[q].id
         /\ Supplied(r) \cap Supplied(q) = {}
         /\ reqs[r].overlap \/ reqs[q].overlap)
        => LET row == RowOf(posts, reqs[r].id)
           IN  /\ row # NoPost
               /\ \A f \in Fields :
                      row[f] = IF f \in Supplied(r) THEN strip(reqs[r].input[f])
                               ELSE IF f \in Supplied(q) THEN strip(reqs[q].input[f])
                               ELSE reqs[r].loaded[f]

\* two requests of different workers, each staged while the other was pending,
\* updated the title and the author of one post; both answered ok and the post
\* holds both values
C30_Witness ==
    /\ Done(1) /\ Done(2)
    /\ reqs[1].ok /\ reqs[2].ok
    /\ reqs[1].op = "updatePost" /\ reqs[2].op = "updatePost"
    /\ reqs[1].id = reqs[2].id
    /\ reqs[1].worker # reqs[2].worker
    /\ Supplied(1) = {"title"} /\ Supplied(2) = {"author"}
    /\ reqs[2].overlap
    /\ reqs[1].post.author # Exactly(MaxAuthorLen)
    /\ RowOf(posts, reqs[1].id).title = Exactly(MaxTitleLen)
    /\ RowOf(posts, reqs[1].id).author = Exactly(MaxAuthorLen)

=============================================================================
